---- MODULE Spec2Model ----
(***************************************************************************)
(* Viewport (deck.gl): coordinate transformations between world space and  *)
(* window pixels.  Numbers are exact extended rationals, storage is a heap *)
(* of arrays, and every public method of the class is one action.          *)
(***************************************************************************)
EXTENDS Integers, Sequences, FiniteSets, TLC

(***************************************************************************)
(* JavaScript numbers.  A finite number is a reduced fraction <<n, d>>     *)
(* with d > 0; <<1, 0>> is Infinity, <<-1, 0>> is -Infinity and <<0, 0>>   *)
(* is NaN.  Undefined (<<0, -1>>) stands for an option or an array slot    *)
(* that is absent.  Rounding and the sign of zero are not represented.     *)
(***************************************************************************)
NaN == <<0, 0>>
PosInf == <<1, 0>>
NegInf == <<-1, 0>>
Undefined == <<0, -1>>
Zero == <<0, 1>>
One == <<1, 1>>

Num(n) == <<n, 1>>

Abs(n) == IF n < 0 THEN -n ELSE n

Sign(n) == IF n > 0 THEN 1 ELSE IF n < 0 THEN -1 ELSE 0

RECURSIVE GCD(_, _)
GCD(a, b) == IF b = 0 THEN a ELSE GCD(b, a % b)

Norm(n, d) ==
  IF d = 0 THEN <<Sign(n), 0>>
  ELSE IF n = 0 THEN Zero
  ELSE LET g == GCD(Abs(n), d) IN <<n \div g, d \div g>>

\* Number.isFinite(x)
IsFinite(x) == x[2] > 0

IsNaN(x) == x = NaN

\* JavaScript truthiness of a number or of an absent value
Truthy(x) == x[1] # 0 /\ x[2] >= 0

Neg(a) == <<-a[1], a[2]>>

Add(a, b) ==
  IF a[2] = 0 /\ b[2] = 0 THEN (IF a = b THEN a ELSE NaN)
  ELSE IF a[2] = 0 THEN a
  ELSE IF b[2] = 0 THEN b
  ELSE LET g == GCD(a[2], b[2])
       IN Norm(a[1] * (b[2] \div g) + b[1] * (a[2] \div g), (a[2] \div g) * b[2])

Sub(a, b) == Add(a, Neg(b))

Mul(a, b) ==
  IF a[2] = 0 \/ b[2] = 0 THEN
    (IF a = NaN \/ b = NaN THEN NaN ELSE <<Sign(a[1]) * Sign(b[1]), 0>>)
  ELSE IF a[1] = 0 \/ b[1] = 0 THEN Zero
  ELSE LET g1 == GCD(Abs(a[1]), b[2])
           g2 == GCD(Abs(b[1]), a[2])
       IN <<(a[1] \div g1) * (b[1] \div g2), (a[2] \div g2) * (b[2] \div g1)>>

\* 1 / a
Recip(a) ==
  IF a[1] > 0 THEN <<a[2], a[1]>>
  ELSE IF a[1] < 0 THEN <<-a[2], -a[1]>>
  ELSE IF a[2] > 0 THEN PosInf
  ELSE NaN

Div(a, b) == Mul(a, Recip(b))

\* a <= b (false when either side is NaN)
Leq(a, b) == a # NaN /\ b # NaN /\ a[1] * b[2] <= b[1] * a[2]

\* a === b on numbers
StrictEq(a, b) == a # NaN /\ a = b

AbsNum(a) == <<Abs(a[1]), a[2]>>

\* Math.max (NaN if any argument is NaN)
Max2(a, b) == IF a = NaN \/ b = NaN THEN NaN ELSE IF Leq(a, b) THEN b ELSE a

\* Math.pow(2, k) for an integer k
RECURSIVE Pow2Int(_)
Pow2Int(k) ==
  IF k = 0 THEN One
  ELSE IF k > 0 THEN Mul(Num(2), Pow2Int(k - 1))
  ELSE Mul(<<1, 2>>, Pow2Int(k + 1))

(***************************************************************************)
(* 4x4 matrices are 16-tuples in column-major order (JS index i is i + 1   *)
(* here).  NullMat is the null a failed inversion returns.                 *)
(***************************************************************************)
NullMat == <<>>

createMat4 ==
  <<One, Zero, Zero, Zero, Zero, One, Zero, Zero,
    Zero, Zero, One, Zero, Zero, Zero, Zero, One>>

Sum4(a, b, c, d) == Add(Add(Add(a, b), c), d)

mat4_multiply(a, b) ==
  [n \in 1..16 |->
     LET j == (n - 1) \div 4
         i == (n - 1) % 4
     IN Sum4(Mul(b[4 * j + 1], a[i + 1]), Mul(b[4 * j + 2], a[4 + i + 1]),
             Mul(b[4 * j + 3], a[8 + i + 1]), Mul(b[4 * j + 4], a[12 + i + 1]))]

mat4_scale(a, v) ==
  [n \in 1..16 |->
     IF n <= 4 THEN Mul(a[n], v[1])
     ELSE IF n <= 8 THEN Mul(a[n], v[2])
     ELSE IF n <= 12 THEN Mul(a[n], v[3])
     ELSE a[n]]

mat4_translate(a, v) ==
  [n \in 1..16 |->
     IF n <= 12 THEN a[n]
     ELSE Sum4(Mul(a[n - 12], v[1]), Mul(a[n - 8], v[2]), Mul(a[n - 4], v[3]), a[n])]

Det2(p, q, r, s) == Sub(Mul(p, q), Mul(r, s))

Cof3(p1, q1, s2, p2, q2, s3, p3, q3) ==
  LET t1 == Mul(p1, q1)
      t2 == Mul(p2, q2)
      t3 == Mul(p3, q3)
  IN Add(Add(t1, IF s2 = 1 THEN t2 ELSE Neg(t2)), IF s3 = 1 THEN t3 ELSE Neg(t3))

mat4_invert(a) ==
  LET a00 == a[1]   a01 == a[2]   a02 == a[3]   a03 == a[4]
      a10 == a[5]   a11 == a[6]   a12 == a[7]   a13 == a[8]
      a20 == a[9]   a21 == a[10]  a22 == a[11]  a23 == a[12]
      a30 == a[13]  a31 == a[14]  a32 == a[15]  a33 == a[16]
      b00 == Det2(a00, a11, a01, a10)
      b01 == Det2(a00, a12, a02, a10)
      b02 == Det2(a00, a13, a03, a10)
      b03 == Det2(a01, a12, a02, a11)
      b04 == Det2(a01, a13, a03, a11)
      b05 == Det2(a02, a13, a03, a12)
      b06 == Det2(a20, a31, a21, a30)
      b07 == Det2(a20, a32, a22, a30)
      b08 == Det2(a20, a33, a23, a30)
      b09 == Det2(a21, a32, a22, a31)
      b10 == Det2(a21, a33, a23, a31)
      b11 == Det2(a22, a33, a23, a32)
      det == Add(Add(Add(Add(Sub(Mul(b00, b11), Mul(b01, b10)), Mul(b02, b09)),
                         Mul(b03, b08)), Neg(Mul(b04, b07))), Mul(b05, b06))
      inv == Recip(det)
  IN IF ~Truthy(det) THEN NullMat
     ELSE <<Mul(Cof3(a11, b11, -1, a12, b10, 1, a13, b09), inv),
            Mul(Cof3(a02, b10, -1, a01, b11, -1, a03, b09), inv),
            Mul(Cof3(a31, b05, -1, a32, b04, 1, a33, b03), inv),
            Mul(Cof3(a22, b04, -1, a21, b05, -1, a23, b03), inv),
            Mul(Cof3(a12, b08, -1, a10, b11, -1, a13, b07), inv),
            Mul(Cof3(a00, b11, -1, a02, b08, 1, a03, b07), inv),
            Mul(Cof3(a32, b02, -1, a30, b05, -1, a33, b01), inv),
            Mul(Cof3(a20, b05, -1, a22, b02, 1, a23, b01), inv),
            Mul(Cof3(a10, b10, -1, a11, b08, 1, a13, b06), inv),
            Mul(Cof3(a01, b08, -1, a00, b10, -1, a03, b06), inv),
            Mul(Cof3(a30, b04, -1, a31, b02, 1, a33, b00), inv),
            Mul(Cof3(a21, b02, -1, a20, b04, -1, a23, b00), inv),
            Mul(Cof3(a11, b07, -1, a10, b09, -1, a12, b06), inv),
            Mul(Cof3(a00, b09, -1, a01, b07, 1, a02, b06), inv),
            Mul(Cof3(a31, b01, -1, a30, b03, -1, a32, b00), inv),
            Mul(Cof3(a20, b03, -1, a21, b01, 1, a22, b00), inv)>>


(***************************************************************************)
(* vec4 / vec2 helpers and the repository's math utilities                 *)
(***************************************************************************)
vec4_transformMat4(a, m) ==
  <<Sum4(Mul(m[1], a[1]), Mul(m[5], a[2]), Mul(m[9], a[3]), Mul(m[13], a[4])),
    Sum4(Mul(m[2], a[1]), Mul(m[6], a[2]), Mul(m[10], a[3]), Mul(m[14], a[4])),
    Sum4(Mul(m[3], a[1]), Mul(m[7], a[2]), Mul(m[11], a[3]), Mul(m[15], a[4])),
    Sum4(Mul(m[4], a[1]), Mul(m[8], a[2]), Mul(m[12], a[3]), Mul(m[16], a[4]))>>

vec2_lerp(a, b, t) ==
  <<Add(a[1], Mul(t, Sub(b[1], a[1]))), Add(a[2], Mul(t, Sub(b[2], a[2])))>>

\* vec4_multiply(result, result, [scale, scale, scale, scale])
vec4_scale(result, scale) ==
  <<Mul(result[1], scale), Mul(result[2], scale),
    Mul(result[3], scale), Mul(result[4], scale)>>

\* the vector scaled by 1 / result[3]
vec4_divideByW(result) == vec4_scale(result, Recip(result[4]))

\* transformVector(matrix, vector): null for a missing matrix, else the
\* transformed vector divided by its w component
transformVector(matrix, vector) ==
  IF matrix = NullMat THEN NullMat
  ELSE vec4_divideByW(vec4_transformMat4(vector, matrix))

\* Math.tan(fovy * DEGREES_TO_RADIANS / 2) for the angles the model passes
TanHalfDeg(fovy) ==
  CASE fovy = Num(90) -> One
    [] fovy = Num(75) -> <<33, 43>>

mat4_perspective(fovyDeg, aspect, near, far) ==
  LET f == Recip(TanHalfDeg(fovyDeg))
      nf == Recip(Sub(near, far))
  IN <<Div(f, aspect), Zero, Zero, Zero,
       Zero, f, Zero, Zero,
       Zero, Zero, Mul(Add(far, near), nf), Num(-1),
       Zero, Zero, Mul(Mul(Mul(Num(2), far), near), nf), Zero>>

(***************************************************************************)
(* math.gl equals(a, b) on two arrays held at addresses pa, pb of heap h   *)
(***************************************************************************)
\* config.EPSILON, the tolerance of math.gl's equals
Epsilon == <<1, 1000000>>

\* Math.abs(a - b) <= config.EPSILON * Math.max(1.0, Math.abs(a), Math.abs(b))
ScalarEquals(a, b) ==
  LET diff == AbsNum(Sub(a, b))
      m == Max2(One, Max2(AbsNum(a), AbsNum(b)))
      r == Div(diff, m)
  IN IF diff = NaN \/ m = NaN THEN FALSE
     ELSE IF m = PosInf THEN TRUE
     ELSE r[1] * Epsilon[1] <= r[2] \div Epsilon[2]

MathEquals(h, pa, pb) ==
  \/ pa = pb
  \/ /\ Len(h[pa]) = Len(h[pb])
     /\ \A i \in 1..Len(h[pa]) : ScalarEquals(h[pa][i], h[pb][i])

(***************************************************************************)
(* viewport-mercator-project, for the latitudes the model passes.          *)
(* LatTop is the latitude of the top edge of the mercator tile.            *)
(***************************************************************************)
LatTop == <<850511, 10000>>

\* Math.cos(latitude in radians)
CosDeg(lat) ==
  CASE lat = Zero -> One
    [] lat = LatTop -> <<8627, 100000>>

\* y of projectFlat([lng, lat], 1): 512 / (2 PI) * (PI - ln(tan(PI/4 + lat/2)))
MercatorY(lat) ==
  CASE lat = Zero -> Num(256)
    [] lat = LatTop -> Zero

EarthCircumference == Num(40075000)

TileSize == Num(512)

\* A zoom level num + log2(log2of); a plain number has log2of = 1
ZoomOf(n) == [num |-> n, log2of |-> One]

\* getMercatorMeterZoom({latitude}) = log2(EARTH_CIRCUMFERENCE * cos(lat)) - 9
getMercatorMeterZoom(lat) ==
  [num |-> Num(-9), log2of |-> Mul(EarthCircumference, CosDeg(lat))]

\* Math.pow(2, zoom)
Pow2(z) == Mul(Pow2Int(z.num[1]), z.log2of)

Vec3(a, b, c) == <<a, b, c>>

getMercatorDistanceScales(lat, lng, scale) ==
  LET ppm == Div(Mul(scale, TileSize), Mul(EarthCircumference, CosDeg(lat)))
      ppd == Div(Mul(scale, TileSize), Num(360))
  IN [pixelsPerMeter |-> Vec3(ppm, ppm, ppm),
      metersPerPixel |-> Vec3(Recip(ppm), Recip(ppm), Recip(ppm)),
      pixelsPerDegree |-> Vec3(ppd, ppd, ppd),
      degreesPerPixel |-> Vec3(Recip(ppd), Recip(ppd), Recip(ppd))]

getMercatorWorldPosition(lng, lat, zoom, meterOffset, ds) ==
  LET scale == Pow2(zoom)
      cx == Div(Mul(Mul(scale, TileSize), Add(lng, Num(180))), Num(360))
      cy == Mul(scale, MercatorY(lat))
  IN Vec3(Sub(cx, Mul(meterOffset[1], ds.pixelsPerMeter[1])),
          Sub(cy, Mul(meterOffset[2], ds.pixelsPerMeter[2])),
          Sub(Zero, Mul(meterOffset[3], ds.pixelsPerMeter[3])))


(***************************************************************************)
(* Module-level constants of viewport.js and the arrays the caller owns.   *)
(* An array lives at an address of heap; 0 is null / undefined.            *)
(***************************************************************************)
ZERO_VECTOR == <<Zero, Zero, Zero>>

\* address of the module constant IDENTITY = createMat4()
IDENTITY == 1

\* address (in dsHeap) of the module constant DEFAULT_DISTANCE_SCALES
DEFAULT_DISTANCE_SCALES == 1

DefaultDistanceScalesValue ==
  [pixelsPerMeter |-> <<One, One, One>>, metersPerPixel |-> <<One, One, One>>,
   pixelsPerDegree |-> <<One, One, One>>, degreesPerPixel |-> <<One, One, One>>]

DEFAULT_ZOOM == 0

displayName == "Viewport"

\* Caller-owned matrices: a camera two units above the plane z = 0 looking
\* down, a camera looking along the plane z = 0, a singular view matrix
ViewBack ==
  <<One, Zero, Zero, Zero, Zero, One, Zero, Zero,
    Zero, Zero, One, Zero, Zero, Zero, Num(-2), One>>

ViewEdge ==
  <<One, Zero, Zero, Zero, Zero, Zero, One, Zero,
    Zero, Num(-1), Zero, Zero, Zero, Zero, Num(-2), One>>

ViewSingular ==
  <<One, Zero, Zero, Zero, Zero, Zero, Zero, Zero,
    Zero, Zero, One, Zero, Zero, Zero, Zero, One>>

\* Caller-owned projection matrices: zero scale on the y axis, a plain
\* scaling, and the same scaling off by less than the tolerance
ProjSingular ==
  <<One, Zero, Zero, Zero, Zero, Zero, Zero, Zero,
    Zero, Zero, One, Zero, Zero, Zero, Zero, One>>

ProjOrtho ==
  <<<<1, 2>>, Zero, Zero, Zero, Zero, <<1, 2>>, Zero, Zero,
    Zero, Zero, <<-1, 2>>, Zero, Zero, Zero, Zero, One>>

ProjOrthoNear ==
  <<<<2000001, 4000000>>, Zero, Zero, Zero, Zero, <<1, 2>>, Zero, Zero,
    Zero, Zero, <<-1, 2>>, Zero, Zero, Zero, Zero, One>>

AViewBack == IDENTITY + 1
AViewEdge == IDENTITY + 2
AViewSingular == IDENTITY + 3
AProjSingular == IDENTITY + 4
AProjOrtho == IDENTITY + 5
AProjOrthoNear == IDENTITY + 6

\* a caller-owned distance-scales object
CallerScalesValue ==
  [pixelsPerMeter |-> <<Num(2), Num(2), Num(2)>>,
   metersPerPixel |-> <<<<1, 2>>, <<1, 2>>, <<1, 2>>>>,
   pixelsPerDegree |-> <<Num(3), Num(3), Num(3)>>,
   degreesPerPixel |-> <<<<1, 3>>, <<1, 3>>, <<1, 3>>>>]

ACallerScales == DEFAULT_DISTANCE_SCALES + 1

VARIABLES
  heap,       \* matrix storage: address -> 16 numbers
  dsHeap,     \* distance-scales objects: address -> record of four vectors
  viewports,  \* the Viewport instances constructed so far
  made,       \* the options each instance was constructed from
  snap,       \* each instance's field values when its constructor returned
  call        \* the call in progress: its operation, arguments and result

vars == <<heap, dsHeap, viewports, made, snap, call>>

Idle == [op |-> "idle"]

(***************************************************************************)
(* constructor(opts)                                                       *)
(***************************************************************************)
Default(v, d) == IF v = Undefined THEN d ELSE v

\* new Vector3(array): a fresh vector holding the array's values
Vector3(a) == <<a[1], a[2], a[3]>>

\* this.isGeospatial = Number.isFinite(latitude) && Number.isFinite(longitude)
IsGeospatial(latitude, longitude) == IsFinite(latitude) /\ IsFinite(longitude)

OrOneMissing(v) == v

\* this.width = width || 1
OrOne(v) == IF Truthy(v) THEN v ELSE One

ResolveZoomFlat(zoom, isGeospatial, latitude) ==
  IF IsFinite(zoom) THEN ZoomOf(zoom) ELSE ZoomOf(Num(DEFAULT_ZOOM))

\* this.zoom, resolved from the zoom option
ResolveZoom(zoom, isGeospatial, latitude) ==
  IF IsFinite(zoom) THEN ZoomOf(zoom)
  ELSE IF isGeospatial THEN getMercatorMeterZoom(latitude)
  ELSE ZoomOf(Num(DEFAULT_ZOOM))

\* this.scale = Math.pow(2, this.zoom)
ResolveScale(zoom) == Pow2(zoom)

\* const aspect = this.width / this.height
Aspect(width, height) == Div(width, height)

\* _initMatrices(): the values of the derived matrices
InitMatrices(viewMatrix, projectionMatrix, width, height) ==
  LET vpm == mat4_multiply(mat4_multiply(createMat4, projectionMatrix), viewMatrix)
      m1 == mat4_scale(createMat4, <<Div(width, Num(2)), Div(Neg(height), Num(2)), One>>)
      m2 == mat4_translate(m1, <<One, Num(-1), Zero>>)
      m == mat4_multiply(m2, vpm)
  IN [viewProjectionMatrix |-> vpm,
      viewMatrixInverse |-> mat4_invert(viewMatrix),
      pixelProjectionMatrix |-> m,
      pixelUnprojectionMatrix |-> mat4_invert(m)]

\* constructor, lines 136-203: the options destructured with their
\* defaults and the scalar fields resolved from them
ResolveFields(o) ==
  LET isGeospatial == IsGeospatial(o.latitude, o.longitude)
      zoom == ResolveZoom(o.zoom, isGeospatial, o.latitude)
      position == IF o.position # <<>> THEN o.position ELSE ZERO_VECTOR
  IN [id |-> IF o.id # "" THEN o.id ELSE displayName,
      x |-> Default(o.x, Zero),
      y |-> Default(o.y, Zero),
      width |-> OrOne(Default(o.width, One)),
      height |-> OrOne(Default(o.height, One)),
      viewMatrix |-> IF o.viewMatrix = 0 THEN IDENTITY ELSE o.viewMatrix,
      fovy |-> Default(o.fovy, Num(75)),
      near |-> Default(o.near, <<1, 10>>),
      far |-> Default(o.far, Num(1000)),
      isGeospatial |-> isGeospatial,
      zoom |-> zoom,
      scale |-> ResolveScale(zoom),
      focalDistance |-> OrOne(o.focalDistance),
      position |-> position,
      meterOffset |-> position]

\* constructor, lines 186-236: the distance scales, the center and the view
\* and projection matrices, from the resolved fields f
ResolveMatrices(o, h, f) ==
  LET geoScales == getMercatorDistanceScales(o.latitude, o.longitude, f.scale)
      center == IF f.isGeospatial
                THEN getMercatorWorldPosition(o.longitude, o.latitude, f.zoom,
                                              f.meterOffset, geoScales)
                ELSE o.position
  IN [geoScales |-> IF f.isGeospatial THEN geoScales ELSE DefaultDistanceScalesValue,
      center |-> center,
      asserted |-> o.projectionMatrix # 0 \/ IsFinite(f.fovy),
      viewMatrix |->
        IF f.isGeospatial
        THEN mat4_translate(
               mat4_scale(mat4_multiply(createMat4, h[f.viewMatrix]),
                          <<One, Num(-1), One>>),
               <<Neg(center[1]), Neg(center[2]), Neg(center[3])>>)
        ELSE h[f.viewMatrix],
      projectionMatrix |->
        IF o.projectionMatrix # 0 THEN h[o.projectionMatrix]
        ELSE IF IsFinite(f.fovy)
        THEN mat4_perspective(f.fovy, Aspect(f.width, f.height), f.near, f.far)
        ELSE NullMat]

\* The instance and the storage the constructor leaves: the arrays it
\* allocated are appended to h, the fields hold their addresses
Assemble(o, h, dh, f, m, im) ==
  LET supplied == o.projectionMatrix # 0
      fresh == (IF f.isGeospatial THEN <<m.viewMatrix>> ELSE <<>>)
               \o (IF supplied THEN <<>> ELSE <<m.projectionMatrix>>)
               \o <<im.viewProjectionMatrix>>
               \o (IF im.viewMatrixInverse = NullMat THEN <<>>
                   ELSE <<im.viewMatrixInverse>>)
               \o <<im.pixelProjectionMatrix>>
               \o (IF im.pixelUnprojectionMatrix = NullMat THEN <<>>
                   ELSE <<im.pixelUnprojectionMatrix>>)
      n0 == Len(h)
      n1 == IF f.isGeospatial THEN n0 + 1 ELSE n0
      n2 == IF supplied THEN n1 ELSE n1 + 1
      n3 == n2 + 1
      n4 == IF im.viewMatrixInverse = NullMat THEN n3 ELSE n3 + 1
      n5 == n4 + 1
      vmAddr == IF f.isGeospatial THEN n1 ELSE f.viewMatrix
      vmInverse == IF im.viewMatrixInverse = NullMat THEN m.viewMatrix
                   ELSE im.viewMatrixInverse
      dsAddr == IF f.isGeospatial THEN Len(dh) + 1
                ELSE IF o.distanceScales # 0 THEN o.distanceScales
                ELSE DEFAULT_DISTANCE_SCALES
      dh1 == IF f.isGeospatial THEN Append(dh, m.geoScales) ELSE dh
  IN [threw |-> FALSE,
      vp |-> [id |-> f.id, isGeospatial |-> f.isGeospatial,
              x |-> f.x, y |-> f.y, width |-> f.width, height |-> f.height,
              zoom |-> f.zoom, scale |-> f.scale,
              distanceScales |-> dsAddr, focalDistance |-> f.focalDistance,
              position |-> f.position, meterOffset |-> f.meterOffset,
              center |-> m.center,
              viewMatrixUncentered |-> f.viewMatrix, viewMatrix |-> vmAddr,
              projectionMatrix |-> IF supplied THEN o.projectionMatrix ELSE n2,
              viewProjectionMatrix |-> n3,
              viewMatrixInverse |-> IF im.viewMatrixInverse = NullMat THEN vmAddr ELSE n4,
              cameraPosition |-> <<vmInverse[13], vmInverse[14], vmInverse[15]>>,
              pixelProjectionMatrix |-> n5,
              pixelUnprojectionMatrix |->
                IF im.pixelUnprojectionMatrix = NullMat THEN 0 ELSE n5 + 1],
      heap |-> h \o fresh,
      dsHeap |-> [dh1 EXCEPT ![dsAddr].metersPerPixel = Vector3(@),
                             ![dsAddr].pixelsPerMeter = Vector3(@)]]

\* What the constructor leaves when assert(Number.isFinite(fovy)) fails:
\* the distance scales were already stored, no matrix was
Failed(o, h, dh, f, m) ==
  LET dsAddr == IF f.isGeospatial THEN Len(dh) + 1
                ELSE IF o.distanceScales # 0 THEN o.distanceScales
                ELSE DEFAULT_DISTANCE_SCALES
      dh1 == IF f.isGeospatial THEN Append(dh, m.geoScales) ELSE dh
  IN [threw |-> TRUE, vp |-> <<>>, heap |-> h,
      dsHeap |-> [dh1 EXCEPT ![dsAddr].metersPerPixel = Vector3(@),
                             ![dsAddr].pixelsPerMeter = Vector3(@)]]

\* constructor, lines 226-239: the assertion on fovy, then _initMatrices()
ViewportWith(o, h, dh, f, m) ==
  IF ~m.asserted THEN Failed(o, h, dh, f, m)
  ELSE Assemble(o, h, dh, f, m,
                InitMatrices(m.viewMatrix, m.projectionMatrix, f.width, f.height))

\* constructor, lines 186-239, from the resolved fields f
ViewportOf(o, h, dh, f) == ViewportWith(o, h, dh, f, ResolveMatrices(o, h, f))

\* The constructor run on options o in storage h, dh:
\* [threw, vp, heap, dsHeap]
ViewportNew(o, h, dh) == ViewportOf(o, h, dh, ResolveFields(o))

\* The values an instance's fields hold (arrays read through their address)
MatAt(h, a) == IF a = 0 THEN NullMat ELSE h[a]

Values(vp, h, dh) ==
  [x |-> vp.x, y |-> vp.y, width |-> vp.width, height |-> vp.height,
   zoom |-> vp.zoom, scale |-> vp.scale,
   distanceScales |-> dh[vp.distanceScales],
   viewMatrix |-> MatAt(h, vp.viewMatrix),
   projectionMatrix |-> MatAt(h, vp.projectionMatrix),
   viewProjectionMatrix |-> MatAt(h, vp.viewProjectionMatrix),
   pixelProjectionMatrix |-> MatAt(h, vp.pixelProjectionMatrix),
   pixelUnprojectionMatrix |-> MatAt(h, vp.pixelUnprojectionMatrix)]


(***************************************************************************)
(* Methods.  Each returns [ret, heap]: its result and the matrix storage   *)
(* it leaves behind.                                                       *)
(***************************************************************************)
Value(v) == [kind |-> "value", val |-> v]
Null == [kind |-> "null", val |-> <<>>]
Throw == [kind |-> "throw", val |-> <<>>]
Bool(b) == [kind |-> IF b THEN "true" ELSE "false", val |-> <<>>]

\* [x0, y0, z0 = 0] = xyz
Third(xyz) == IF Len(xyz) >= 3 THEN xyz[3] ELSE Zero

\* _projectFlat(xyz, scale) and _unprojectFlat(xyz, scale): the identity hooks
projectFlat(vp, xyz) == xyz

unprojectFlat(vp, xyz) == xyz

\* project, lines 283-285: v in window coordinates, with depth z for a
\* three-component input
projectResult(vp, xyz, topLeft, v, z) ==
  LET y2 == IF topLeft THEN Sub(vp.height, v[2]) ELSE v[2]
  IN IF Len(xyz) = 2 THEN <<v[1], y2>> ELSE <<v[1], y2, z>>

\* project, lines 280-285, from the finite point <<x0, y0, z0>>
projectPoint(vp, h, xyz, topLeft, XY, z0) ==
  projectResult(vp, xyz, topLeft,
                transformVector(h[vp.pixelProjectionMatrix],
                                <<XY[1], XY[2], z0, One>>),
                Zero)

projectKeepsDepth(vp, h, xyz, topLeft) ==
  IF ~(IsFinite(xyz[1]) /\ IsFinite(xyz[2]) /\ IsFinite(Third(xyz)))
  THEN [ret |-> Throw, heap |-> h]
  ELSE [ret |-> Value(projectResult(vp, xyz, topLeft,
                        transformVector(h[vp.pixelProjectionMatrix],
                                        <<xyz[1], xyz[2], Third(xyz), One>>),
                        Third(xyz))),
        heap |-> h]

project(vp, h, xyz, topLeft) ==
  LET x0 == xyz[1]
      y0 == xyz[2]
      z0 == Third(xyz)
  IN IF ~(IsFinite(x0) /\ IsFinite(y0) /\ IsFinite(z0))
     THEN [ret |-> Throw, heap |-> h]
     ELSE [ret |-> Value(projectPoint(vp, h, xyz, topLeft,
                                      projectFlat(vp, <<x0, y0>>), z0)),
           heap |-> h]

\* The two points unproject sends through the inverse pixel matrix: the
\* pixel at depth 0 and at depth 1
unprojectRay(vp, h, xyz, topLeft) ==
  LET x == xyz[1]
      y == xyz[2]
      y2 == IF topLeft THEN Sub(vp.height, y) ELSE y
      pum == MatAt(h, vp.pixelUnprojectionMatrix)
  IN [coord0 |-> transformVector(pum, <<x, y2, Zero, One>>),
      coord1 |-> transformVector(pum, <<x, y2, One, One>>)]

\* unproject, lines 311-315: the point of the ray at height targetZ
unprojectLerp(ray, targetZ) ==
  LET z0 == ray.coord0[3]
      z1 == ray.coord1[3]
      t == IF StrictEq(z0, z1) THEN Zero ELSE Div(Sub(targetZ, z0), Sub(z1, z0))
  IN vec2_lerp(ray.coord0, ray.coord1, t)

\* unproject, line 318: [x, y] for a two-component input, else [x, y, 0]
unprojectResult(xyz, vUnprojected) ==
  IF Len(xyz) = 2 THEN vUnprojected
  ELSE <<vUnprojected[1], vUnprojected[2], Zero>>

\* unproject, lines 307-318, from the two points of the ray
unprojectOnRay(vp, h, xyz, ray) ==
  IF ray.coord0 = NullMat \/ ray.coord1 = NullMat
  THEN [ret |-> Null, heap |-> h]
  ELSE [ret |-> Value(unprojectResult(xyz,
                        unprojectFlat(vp, unprojectLerp(ray, Third(xyz))))),
        heap |-> h]

unprojectNoFlip(vp, h, xyz, topLeft) ==
  unprojectOnRay(vp, h, xyz, unprojectRay(vp, h, xyz, FALSE))

unprojectNoNullCheck(vp, h, xyz, topLeft) ==
  IF vp.pixelUnprojectionMatrix = 0 THEN [ret |-> Throw, heap |-> h]
  ELSE unprojectOnRay(vp, h, xyz, unprojectRay(vp, h, xyz, topLeft))

unproject(vp, h, xyz, topLeft) ==
  unprojectOnRay(vp, h, xyz, unprojectRay(vp, h, xyz, topLeft))

\* equals(viewport): other = [isViewport, obj], obj holding the fields of the
\* object passed in
equalsWithScales(vp, h, other) ==
  IF ~other.isViewport THEN [ret |-> Bool(FALSE), heap |-> h]
  ELSE [ret |-> Bool(/\ other.obj.width = vp.width
                     /\ other.obj.height = vp.height
                     /\ MathEquals(h, other.obj.projectionMatrix, vp.projectionMatrix)
                     /\ MathEquals(h, other.obj.viewMatrix, vp.viewMatrix)
                     /\ other.obj.distanceScales = vp.distanceScales),
        heap |-> h]

equalsUncentered(vp, h, other) ==
  IF ~other.isViewport THEN [ret |-> Bool(FALSE), heap |-> h]
  ELSE [ret |-> Bool(/\ other.obj.width = vp.width
                     /\ other.obj.height = vp.height
                     /\ MathEquals(h, other.obj.projectionMatrix, vp.projectionMatrix)
                     /\ MathEquals(h, other.obj.viewMatrix, vp.viewMatrixUncentered)),
        heap |-> h]

equals(vp, h, other) ==
  IF ~other.isViewport THEN [ret |-> Bool(FALSE), heap |-> h]
  ELSE [ret |-> Bool(/\ other.obj.width = vp.width
                     /\ other.obj.height = vp.height
                     /\ MathEquals(h, other.obj.projectionMatrix, vp.projectionMatrix)
                     /\ MathEquals(h, other.obj.viewMatrix, vp.viewMatrix)),
        heap |-> h]

getDistanceScales(vp, h) == [ret |-> [kind |-> "ref", val |-> vp.distanceScales], heap |-> h]

\* a stored array handed out by reference, or a fresh array handed out whole
Ref(h, a) == [ref |-> a, val |-> MatAt(h, a)]
Fresh(m) == [ref |-> 0, val |-> m]

getMatricesInPlace(vp, h, modelMatrix) ==
  LET ppm == mat4_multiply(h[vp.pixelProjectionMatrix], h[modelMatrix])
  IN [ret |-> [kind |-> "matrices", val |-> <<>>],
      heap |-> IF modelMatrix # 0
               THEN [h EXCEPT ![vp.pixelProjectionMatrix] = ppm]
               ELSE h]

getMatrices(vp, h, modelMatrix) ==
  [ret |-> [kind |-> "matrices",
            val |-> [modelViewProjectionMatrix |->
                       IF modelMatrix # 0
                       THEN Fresh(mat4_multiply(h[vp.viewProjectionMatrix],
                                                h[modelMatrix]))
                       ELSE Ref(h, vp.viewProjectionMatrix),
                     viewProjectionMatrix |-> Ref(h, vp.viewProjectionMatrix),
                     viewMatrix |-> Ref(h, vp.viewMatrix),
                     projectionMatrix |-> Ref(h, vp.projectionMatrix),
                     pixelProjectionMatrix |->
                       IF modelMatrix # 0
                       THEN Fresh(mat4_multiply(h[vp.pixelProjectionMatrix],
                                                h[modelMatrix]))
                       ELSE Ref(h, vp.pixelProjectionMatrix),
                     pixelUnprojectionMatrix |->
                       IF modelMatrix # 0
                       THEN Fresh(mat4_invert(
                                    mat4_multiply(h[vp.pixelProjectionMatrix],
                                                  h[modelMatrix])))
                       ELSE Ref(h, vp.pixelUnprojectionMatrix),
                     width |-> vp.width, height |-> vp.height,
                     scale |-> vp.scale]],
   heap |-> h]

(***************************************************************************)
(* Inputs                                                                  *)
(***************************************************************************)
MaxViewports == 2

NoOpts ==
  [id |-> "", x |-> Undefined, y |-> Undefined,
   width |-> Undefined, height |-> Undefined,
   viewMatrix |-> 0, projectionMatrix |-> 0,
   fovy |-> Undefined, near |-> Undefined, far |-> Undefined,
   longitude |-> Undefined, latitude |-> Undefined, zoom |-> Undefined,
   position |-> <<>>, distanceScales |-> 0, focalDistance |-> Undefined]

\* a perspective camera above the plane z = 0
Above == [NoOpts EXCEPT !.viewMatrix = AViewBack, !.fovy = Num(90),
                        !.near = One, !.far = Num(3)]

\* a caller-supplied scaling projection on a 4 x 2 window
Flat == [NoOpts EXCEPT !.projectionMatrix = AProjOrtho,
                       !.width = Num(4), !.height = Num(2)]

SizeOptions ==
  {[Above EXCEPT !.width = wh[1], !.height = wh[2]] :
     wh \in {<<Undefined, Num(2)>>, <<Zero, Zero>>, <<Num(-2), Num(2)>>,
             <<<<1, 2>>, Num(2)>>, <<Num(4), Zero>>, <<NaN, Num(2)>>,
             <<Num(4), Num(-2)>>, <<Num(4), <<1, 2>>>>}}

MatrixOptions ==
  {NoOpts, Flat,
   [Flat EXCEPT !.projectionMatrix = AProjSingular],
   [Flat EXCEPT !.projectionMatrix = AProjOrthoNear],
   [Flat EXCEPT !.viewMatrix = AViewBack],
   [Flat EXCEPT !.viewMatrix = AViewEdge],
   [Flat EXCEPT !.viewMatrix = AViewSingular],
   [Above EXCEPT !.viewMatrix = AViewEdge],
   [Above EXCEPT !.far = One],
   [Above EXCEPT !.fovy = NaN],
   [Above EXCEPT !.fovy = PosInf],
   [Flat EXCEPT !.fovy = NaN]}

GeoOptions ==
  {[Above EXCEPT !.latitude = Zero, !.longitude = Num(-180), !.zoom = One],
   [Above EXCEPT !.latitude = LatTop, !.longitude = Num(-180)],
   [Above EXCEPT !.latitude = LatTop, !.longitude = Num(-180), !.zoom = NaN],
   [Above EXCEPT !.latitude = LatTop, !.longitude = Num(-180), !.zoom = Num(-1),
                 !.position = <<One, Num(2), Zero>>],
   [Above EXCEPT !.latitude = Zero, !.zoom = One],
   [Above EXCEPT !.latitude = NaN, !.longitude = Num(-180), !.zoom = PosInf],
   [Above EXCEPT !.longitude = Num(-180)]}

OtherOptions ==
  {[Flat EXCEPT !.id = "map", !.x = Num(10), !.y = Num(20), !.zoom = Num(3),
                !.distanceScales = ACallerScales, !.focalDistance = Num(2)],
   [Flat EXCEPT !.position = <<One, Num(2), Zero>>]}

\* what the first instance is constructed from
Options == SizeOptions \cup MatrixOptions \cup GeoOptions \cup OtherOptions

\* what a later instance is constructed from
PeerOptions ==
  {NoOpts, Flat,
   [Flat EXCEPT !.projectionMatrix = AProjOrthoNear],
   [Flat EXCEPT !.height = Num(4)],
   [Flat EXCEPT !.id = "map", !.x = Num(10), !.y = Num(20), !.zoom = Num(3),
                !.distanceScales = ACallerScales, !.focalDistance = Num(2)]}

Points ==
  {<<Num(-1), Num(2)>>, <<One, One, Zero>>, <<One, One, Num(3)>>,
   <<NaN, One>>, <<One, One, PosInf>>}

ModelMatrices == {0, AViewBack, AProjSingular}

(***************************************************************************)
(* The program                                                             *)
(***************************************************************************)
Init ==
  /\ heap = <<createMat4, ViewBack, ViewEdge, ViewSingular,
              ProjSingular, ProjOrtho, ProjOrthoNear>>
  /\ dsHeap = <<DefaultDistanceScalesValue, CallerScalesValue>>
  /\ viewports = <<>>
  /\ made = <<>>
  /\ snap = <<>>
  /\ call = Idle

Construct(o) ==
  /\ call.op = "idle"
  /\ Len(viewports) < MaxViewports
  /\ \E r \in {ViewportNew(o, heap, dsHeap)} :
        /\ dsHeap' = r.dsHeap
        /\ heap' = r.heap
        /\ IF r.threw
           THEN /\ UNCHANGED <<viewports, made, snap>>
                /\ call' = [op |-> "new", self |-> 0, opts |-> o, ret |-> Throw]
           ELSE /\ viewports' = Append(viewports, r.vp)
                /\ made' = Append(made, o)
                /\ snap' = Append(snap, Values(r.vp, r.heap, r.dsHeap))
                /\ call' = [op |-> "new", self |-> Len(viewports) + 1, opts |-> o,
                            ret |-> Value(<<>>)]

NoSource == [xyz |-> <<>>, topLeft |-> FALSE]

Project(i, xyz, topLeft) ==
  /\ call.op = "idle"
  /\ \E r \in {project(viewports[i], heap, xyz, topLeft)} :
        /\ heap' = r.heap
        /\ call' = [op |-> "project", self |-> i, xyz |-> xyz, topLeft |-> topLeft,
                    ret |-> r.ret]
  /\ UNCHANGED <<dsHeap, viewports, made, snap>>

Unproject(i, xyz, topLeft) ==
  /\ call.op = "idle"
  /\ \E r \in {unproject(viewports[i], heap, xyz, topLeft)} :
        /\ heap' = r.heap
        /\ call' = [op |-> "unproject", self |-> i, xyz |-> xyz, topLeft |-> topLeft,
                    ret |-> r.ret, chained |-> FALSE, source |-> NoSource]
  /\ UNCHANGED <<dsHeap, viewports, made, snap>>

\* unproject applied to the pixel the last project call returned
UnprojectResult(topLeft) ==
  /\ call.op = "project"
  /\ call.ret.kind = "value"
  /\ \E r \in {unproject(viewports[call.self], heap, call.ret.val, topLeft)} :
        /\ heap' = r.heap
        /\ call' = [op |-> "unproject", self |-> call.self, xyz |-> call.ret.val,
                    topLeft |-> topLeft, ret |-> r.ret, chained |-> TRUE,
                    source |-> [xyz |-> call.xyz, topLeft |-> call.topLeft]]
  /\ UNCHANGED <<dsHeap, viewports, made, snap>>

Equals(i, j, isViewport) ==
  /\ call.op = "idle"
  /\ \E r \in {equals(viewports[i], heap,
                         [isViewport |-> isViewport, obj |-> viewports[j]])} :
        /\ heap' = r.heap
        /\ call' = [op |-> "equals", self |-> i, other |-> j,
                    isViewport |-> isViewport, ret |-> r.ret]
  /\ UNCHANGED <<dsHeap, viewports, made, snap>>

ProjectFlat(i, xy) ==
  /\ call.op = "idle"
  /\ call' = [op |-> "projectFlat", self |-> i, xyz |-> xy,
              ret |-> Value(projectFlat(viewports[i], xy))]
  /\ UNCHANGED <<heap, dsHeap, viewports, made, snap>>

UnprojectFlat(i, xy) ==
  /\ call.op = "idle"
  /\ call' = [op |-> "unprojectFlat", self |-> i, xyz |-> xy,
              ret |-> Value(unprojectFlat(viewports[i], xy))]
  /\ UNCHANGED <<heap, dsHeap, viewports, made, snap>>

GetDistanceScales(i) ==
  /\ call.op = "idle"
  /\ \E r \in {getDistanceScales(viewports[i], heap)} :
        /\ heap' = r.heap
        /\ call' = [op |-> "getDistanceScales", self |-> i, ret |-> r.ret]
  /\ UNCHANGED <<dsHeap, viewports, made, snap>>

GetMatrices(i, modelMatrix) ==
  /\ call.op = "idle"
  /\ \E r \in {getMatrices(viewports[i], heap, modelMatrix)} :
        /\ heap' = r.heap
        /\ call' = [op |-> "getMatrices", self |-> i, modelMatrix |-> modelMatrix,
                    ret |-> r.ret]
  /\ UNCHANGED <<dsHeap, viewports, made, snap>>

\* the caller takes the result
Return ==
  /\ call.op # "idle"
  /\ call' = Idle
  /\ UNCHANGED <<heap, dsHeap, viewports, made, snap>>

Next ==
  \/ \E o \in (IF viewports = <<>> THEN Options ELSE PeerOptions) : Construct(o)
  \/ \E i \in 1..Len(viewports), xyz \in Points, topLeft \in BOOLEAN :
       Project(i, xyz, topLeft)
  \/ \E i \in 1..Len(viewports), xyz \in Points, topLeft \in BOOLEAN :
       Unproject(i, xyz, topLeft)
  \/ \E topLeft \in BOOLEAN : UnprojectResult(topLeft)
  \/ \E i \in 1..Len(viewports), j \in 1..Len(viewports), isViewport \in BOOLEAN :
       Equals(i, j, isViewport)
  \/ \E i \in 1..Len(viewports), xy \in {<<One, Num(2)>>} : ProjectFlat(i, xy)
  \/ \E i \in 1..Len(viewports), xy \in {<<One, Num(2)>>} : UnprojectFlat(i, xy)
  \/ \E i \in 1..Len(viewports) : GetDistanceScales(i)
  \/ \E i \in 1..Len(viewports), modelMatrix \in ModelMatrices :
       GetMatrices(i, modelMatrix)
  \/ Return

Spec == Init /\ [][Next]_vars

(***************************************************************************)
(* Properties                                                              *)
(***************************************************************************)
Live == 1..Len(viewports)

Self == viewports[call.self]

AllFinite(xyz) == \A k \in 1..Len(xyz) : IsFinite(xyz[k])

\* the option a constructor call resolves: the default replaces undefined
FovyOf(o) == Default(o.fovy, Num(75))

\* C1: a singular pixel projection matrix never makes the constructor
\* throw (it throws only for a non-finite fovy without a projectionMatrix),
\* it leaves pixelUnprojectionMatrix absent, and from then on every
\* unproject call on that instance returns null
C1_SingularUnprojectIsNull ==
  /\ (call.op = "new" /\ call.ret # Throw
        /\ mat4_invert(heap[Self.pixelProjectionMatrix]) = NullMat)
       => Self.pixelUnprojectionMatrix = 0
  /\ (call.op = "new" /\ call.ret = Throw)
       => (call.opts.projectionMatrix = 0 /\ ~IsFinite(FovyOf(call.opts)))
  /\ (call.op = "unproject" /\ Self.pixelUnprojectionMatrix = 0)
       => call.ret = Null

C1_Witness ==
  /\ call.op = "unproject"
  /\ made[call.self].projectionMatrix = AProjSingular
  /\ Self.pixelUnprojectionMatrix = 0
  /\ call.topLeft
  /\ call.ret = Null

\* C2: whatever methods have been called, every instance's x, y, width,
\* height, zoom, scale, distanceScales and matrices hold the values they
\* held when its constructor returned
C2_ImmutableAfterConstruction ==
  \A i \in Live : Values(viewports[i], heap, dsHeap) = snap[i]

C2_Witness ==
  /\ call.op = "getMatrices"
  /\ call.modelMatrix # 0
  /\ call.ret.val.pixelProjectionMatrix.val # heap[Self.pixelProjectionMatrix]
  /\ Values(Self, heap, dsHeap) = snap[call.self]

\* the arrays an instance holds in its matrix fields
MatrixStorage(vp) ==
  {vp.viewMatrix, vp.viewMatrixUncentered, vp.projectionMatrix,
   vp.viewProjectionMatrix, vp.pixelProjectionMatrix,
   vp.pixelUnprojectionMatrix} \ {0}

\* C3 (as claimed): no two instances hold the same array in their matrix
\* fields
C3_NoSharedMatrixStorage ==
  \A i \in Live, j \in Live :
    i # j => MatrixStorage(viewports[i]) \cap MatrixStorage(viewports[j]) = {}

ApproxSeq(a, b) ==
  /\ Len(a) = Len(b)
  /\ \A k \in 1..Len(a) : ScalarEquals(a[k], b[k])

\* a round trip: unproject was applied, with the same topLeft, to the pixel
\* project returned for a finite 2-component point, on an instance that has
\* a pixelUnprojectionMatrix
IsRoundTrip ==
  /\ call.op = "unproject"
  /\ call.chained
  /\ call.topLeft = call.source.topLeft
  /\ Len(call.source.xyz) = 2
  /\ AllFinite(call.source.xyz)
  /\ Self.pixelUnprojectionMatrix # 0

RayCrossesPlane ==
  LET ray == unprojectRay(Self, heap, call.xyz, call.topLeft)
  IN /\ AllFinite(call.xyz)
     /\ AllFinite(ray.coord0)
     /\ AllFinite(ray.coord1)
     /\ ray.coord0[3] # ray.coord1[3]

NonFiniteInput(xyz) ==
  ~(IsFinite(xyz[1]) /\ IsFinite(xyz[2]) /\ IsFinite(Third(xyz)))

\* C5 (as claimed): project and unproject throw on a non-finite input
\* component, and the constructor throws on a non-finite fovy when no
\* projectionMatrix is supplied
C5_NonFiniteInputRejected ==
  /\ (call.op \in {"project", "unproject"} /\ NonFiniteInput(call.xyz))
       => call.ret = Throw
  /\ (call.op = "new" /\ call.opts.projectionMatrix = 0 /\ ~IsFinite(FovyOf(call.opts)))
       => call.ret = Throw

\* C6: equals returns true exactly when the argument is a Viewport, width
\* and height are identical and the projection and view matrices are
\* approximately equal; nothing else is consulted
C6_EqualsIffSizeAndMatrices ==
  call.op = "equals" =>
    (call.ret = Bool(TRUE) <=>
       /\ call.isViewport
       /\ viewports[call.other].width = Self.width
       /\ viewports[call.other].height = Self.height
       /\ MathEquals(heap, viewports[call.other].projectionMatrix, Self.projectionMatrix)
       /\ MathEquals(heap, viewports[call.other].viewMatrix, Self.viewMatrix))

C6_Witness ==
  /\ call.op = "equals"
  /\ call.ret = Bool(TRUE)
  /\ call.other # call.self
  /\ dsHeap[viewports[call.other].distanceScales] # dsHeap[Self.distanceScales]
  /\ viewports[call.other].x # Self.x
  /\ viewports[call.other].zoom # Self.zoom
  /\ viewports[call.other].id # Self.id

\* C7: v.equals(v) is true and v1.equals(v2) = v2.equals(v1)
C7_EqualsReflexiveSymmetric ==
  (call.op = "equals" /\ call.isViewport) =>
    /\ call.ret = equals(viewports[call.other], heap,
                         [isViewport |-> TRUE, obj |-> Self]).ret
    /\ call.other = call.self => call.ret = Bool(TRUE)

C7_Witness ==
  /\ call.op = "equals"
  /\ call.isViewport
  /\ call.other # call.self
  /\ call.ret = Bool(TRUE)
  /\ heap[viewports[call.other].projectionMatrix] # heap[Self.projectionMatrix]

\* C8 (as claimed): width >= 1 and height >= 1 in every instance
C8_SizeAtLeastOne ==
  \A i \in Live : Leq(One, viewports[i].width) /\ Leq(One, viewports[i].height)

\* C8 (amended): a width or height option that is 0, NaN or omitted becomes
\* 1 and every other value is kept as given, so neither is ever 0; the
\* aspect ratio of a default projection matrix is width / height of these
\* resolved values
C8_SizeFalsyBecomesOne ==
  \A i \in Live :
    LET o == made[i]
        vp == viewports[i]
        pm == heap[vp.projectionMatrix]
    IN /\ vp.width = (IF o.width \in {Undefined, Zero, NaN} THEN One ELSE o.width)
       /\ vp.height = (IF o.height \in {Undefined, Zero, NaN} THEN One ELSE o.height)
       /\ vp.width # Zero /\ vp.height # Zero
       /\ o.projectionMatrix = 0 => Mul(pm[1], Div(vp.width, vp.height)) = pm[6]

C8_Witness ==
  \E i \in Live :
    /\ made[i].width = Zero
    /\ made[i].height = Zero
    /\ made[i].projectionMatrix = 0
    /\ viewports[i].width = One
    /\ viewports[i].height = One
    /\ heap[viewports[i].projectionMatrix][1] = heap[viewports[i].projectionMatrix][6]

\* C9: project and unproject return 2 components for a 2-component input
\* and otherwise 3 components the third of which is 0; a missing third
\* input component counts as 0
C9_ResultShape ==
  (call.op \in {"project", "unproject"} /\ call.ret.kind = "value") =>
    LET padded == <<call.xyz[1], call.xyz[2], Zero>>
        again == IF call.op = "project"
                 THEN project(Self, heap, padded, call.topLeft).ret
                 ELSE unproject(Self, heap, padded, call.topLeft).ret
    IN IF Len(call.xyz) = 2
       THEN /\ Len(call.ret.val) = 2
            /\ again.kind = "value"
            /\ call.ret.val = <<again.val[1], again.val[2]>>
       ELSE /\ Len(call.ret.val) = 3
            /\ call.ret.val[3] = Zero

C9_Witness ==
  /\ call.op = "project"
  /\ Len(call.xyz) = 3
  /\ call.xyz[3] = Num(3)
  /\ call.ret.kind = "value"
  /\ AllFinite(call.ret.val)
  /\ call.ret.val[3] = Zero

\* C10: isGeospatial holds exactly when latitude and longitude are both
\* finite; zoom is the zoom option when finite, else 0 outside geospatial
\* mode and the mercator meter zoom of the latitude inside it; scale = 2^zoom
C10_ModeZoomScale ==
  \A i \in Live :
    LET o == made[i]
        vp == viewports[i]
    IN /\ vp.isGeospatial <=> (IsFinite(o.latitude) /\ IsFinite(o.longitude))
       /\ IsFinite(o.zoom) => vp.zoom = ZoomOf(o.zoom)
       /\ (~IsFinite(o.zoom) /\ ~vp.isGeospatial) => vp.zoom = ZoomOf(Zero)
       /\ (~IsFinite(o.zoom) /\ vp.isGeospatial)
            => vp.zoom = getMercatorMeterZoom(o.latitude)
       /\ vp.scale = Pow2(vp.zoom)

C10_Witness ==
  \E i \in Live :
    /\ viewports[i].isGeospatial
    /\ made[i].zoom = NaN
    /\ viewports[i].zoom = getMercatorMeterZoom(made[i].latitude)
    /\ viewports[i].scale # One

\* the two ray points the unproject call that just returned went through
CallRay == unprojectRay(Self, heap, call.xyz, call.topLeft)

====
